---- MODULE Spec2Model ----
(***************************************************************************)
(* Model of cal-ai's page (src/src/app/page.tsx): the nutrition-text       *)
(* parser, the numeric extractor, the macro pie chart's fallback and the   *)
(* Home component's state with its event handlers.                         *)
(*                                                                         *)
(* Strings are sequences of one-character strings, so that splitting,      *)
(* trimming, prefix matching and number scanning are computed character by *)
(* character.  Numbers are exact decimals [n |-> mantissa, d |-> number of *)
(* fraction digits] in canonical form (no trailing fraction zero); the     *)
(* rounding of IEEE doubles is not modelled.                               *)
(***************************************************************************)
EXTENDS Integers, Sequences, FiniteSets, TLC

VARIABLES
    \* parseNutritionResult, one loop iteration per step
    text, lineIdx, nutritionData, tipFound, tipLines, ppc,
    \* extractNumericValue
    str, extracted,
    \* NutritionPieChart
    chartProps, chartView,
    \* Home: the useState cells
    image, result, isLoading, barcodeData, barcodeError,
    todaysMeals, showCamera, stream, cameraError,
    \* Home: what the render shows of the meal list (the Daily Totals grid)
    dailyTotals,
    \* the environment of the page: Date.now(), the calls awaiting an answer,
    \* the media streams whose tracks are not stopped
    now, analyses, barcodeReqs, cameraReqs, blobJobs, liveStreams,
    \* history: the image whose request was answered by what the result cell
    \* holds (0 while the cell is null)
    answeredImage,
    \* POST of /api/analyse: which of the two handlers of the repository runs,
    \* its environment and request, its position, what it has answered and
    \* how many analyses it has started
    route, apiKey, request, rpc, responses, attempts

parserVars == <<text, lineIdx, nutritionData, tipFound, tipLines, ppc>>
extractorVars == <<str, extracted>>
chartVars == <<chartProps, chartView>>
homeVars == <<image, result, isLoading, barcodeData, barcodeError,
              todaysMeals, showCamera, stream, cameraError>>
envVars == <<now, analyses, barcodeReqs, cameraReqs, blobJobs, liveStreams>>
pageVars == <<homeVars, dailyTotals, envVars, answeredImage>>
routeVars == <<route, apiKey, request, rpc, responses, attempts>>
vars == <<parserVars, extractorVars, chartVars, pageVars, routeVars>>

----------------------------------------------------------------------------
(* Bounds *)

\* Lines of an input text of the parser.
MaxLines == 3
\* Length of an input string of the extractor.
MaxStrLen == 4
\* Asynchronous calls of one kind (analysis: toBlob and fetch of /api/analyse;
\* barcode: fetch of the product; camera: getUserMedia) awaiting their answer,
\* in the page as a whole.
MaxPending == 1
\* The same, where the user does not wait for an answer before acting again
\* (the meal list left aside).
MaxOverlap == 2
\* Kinds of asynchronous call awaiting an answer at the same time.
MaxKinds == 1
\* Entries of the meal list.
MaxMeals == 2
\* Milliseconds on the clock since the page was loaded.
MaxClock == 1
\* Media streams with running tracks.
MaxStreams == 2

----------------------------------------------------------------------------
(* Characters and strings *)

UpperChars == <<"A","B","C","D","E","F","G","H","I","J","K","L","M",
                "N","O","P","Q","R","S","T","U","V","W","X","Y","Z">>
LowerChars == <<"a","b","c","d","e","f","g","h","i","j","k","l","m",
                "n","o","p","q","r","s","t","u","v","w","x","y","z">>
Digits == <<"0","1","2","3","4","5","6","7","8","9">>
Punct == {" ", "\t", "\r", "\n", ":", ".", "-", "~", ",", "/", "!"}

Range(s) == {s[i] : i \in DOMAIN s}
Char == Range(UpperChars) \cup Range(LowerChars) \cup Range(Digits) \cup Punct

\* The characters String.prototype.trim removes and the regex class \s matches.
WhiteSpace == {" ", "\t", "\r", "\n"}

\* Case folding of the regex flag i.
ToLower(c) ==
    IF \E i \in DOMAIN UpperChars : UpperChars[i] = c
    THEN LowerChars[CHOOSE i \in DOMAIN UpperChars : UpperChars[i] = c]
    ELSE c

ToUpper(c) ==
    IF \E i \in DOMAIN LowerChars : LowerChars[i] = c
    THEN UpperChars[CHOOSE i \in DOMAIN LowerChars : LowerChars[i] = c]
    ELSE c

IsDigit(c) == c \in Range(Digits)
DigitValue(c) == (CHOOSE i \in DOMAIN Digits : Digits[i] = c) - 1

\* String.prototype.trimStart: from the first character that is no white space.
TrimStart(s) ==
    LET black == {i \in DOMAIN s : s[i] \notin WhiteSpace}
    IN  IF black = {} THEN <<>>
        ELSE SubSeq(s, CHOOSE i \in black : \A j \in black : i <= j, Len(s))

\* String.prototype.trimEnd: up to the last character that is no white space.
TrimEnd(s) ==
    LET black == {i \in DOMAIN s : s[i] \notin WhiteSpace}
    IN  IF black = {} THEN <<>>
        ELSE SubSeq(s, 1, CHOOSE i \in black : \A j \in black : i >= j)

\* String.prototype.trim
Trim(s) == TrimEnd(TrimStart(s))

\* String.prototype.split(sep) for a one-character separator: the pieces
\* between separators, empty pieces kept, one piece for the empty string.
Split(s, sep) ==
    LET seps == {i \in DOMAIN s : s[i] = sep}
        n    == Cardinality(seps) + 1
        \* the position of the k-th separator; 0 and Len(s) + 1 bracket the string
        at(k) == IF k = 0 THEN 0
                 ELSE IF k = n THEN Len(s) + 1
                 ELSE CHOOSE i \in seps : Cardinality({j \in seps : j <= i}) = k
    IN  [k \in 1..n |-> SubSeq(s, at(k - 1) + 1, at(k) - 1)]

\* Array.prototype.join(sep)
RECURSIVE Join(_, _)
Join(ss, sep) ==
    IF ss = <<>> THEN <<>>
    ELSE IF Len(ss) = 1 THEN ss[1]
    ELSE ss[1] \o sep \o Join(Tail(ss), sep)

----------------------------------------------------------------------------
(* parseNutritionResult *)

Fields == {"calories", "protein", "carbs", "fat", "tip"}

\* The literal text of each regex /^<label>:\s*/i, in lower case.
LabelText ==
    [calories |-> <<"c","a","l","o","r","i","e","s",":">>,
     protein  |-> <<"p","r","o","t","e","i","n",":">>,
     carbs    |-> <<"c","a","r","b","s",":">>,
     fat      |-> <<"f","a","t",":">>,
     tip      |-> <<"t","i","p",":">>]

\* The record the parser starts from.
EmptyNutritionData ==
    [calories |-> <<>>, protein |-> <<>>, carbs |-> <<>>, fat |-> <<>>, tip |-> <<>>]

\* TestLabel without the flag i.
TestLabelCaseSensitive(trimmedLine, f) ==
    /\ Len(trimmedLine) >= Len(LabelText[f])
    /\ \A i \in 1..Len(LabelText[f]) : trimmedLine[i] = LabelText[f][i]

\* /^<label>:\s*/i.test(trimmedLine): \s* also matches nothing, so the test
\* is the case-insensitive prefix test.
TestLabel(trimmedLine, f) ==
    /\ Len(trimmedLine) >= Len(LabelText[f])
    /\ \A i \in 1..Len(LabelText[f]) : ToLower(trimmedLine[i]) = LabelText[f][i]

\* StripLabel with a regex that stops at the colon, and without the trim.
StripLabelOnly(trimmedLine, f) ==
    IF TestLabel(trimmedLine, f)
    THEN SubSeq(trimmedLine, Len(LabelText[f]) + 1, Len(trimmedLine))
    ELSE trimmedLine

\* trimmedLine.replace(/^<label>:\s*/i, '').trim(): the greedy \s* takes all
\* the white space that follows the label.
StripLabel(trimmedLine, f) ==
    IF TestLabel(trimmedLine, f)
    THEN Trim(TrimStart(SubSeq(trimmedLine, Len(LabelText[f]) + 1, Len(trimmedLine))))
    ELSE Trim(trimmedLine)

\* ParseStep collecting continuation lines whether or not tip: was seen.
ParseStepUnguarded(st, line) ==
    LET trimmedLine == Trim(line) IN
    IF TestLabel(trimmedLine, "calories")
    THEN [st EXCEPT !.nd.calories = StripLabel(trimmedLine, "calories")]
    ELSE IF TestLabel(trimmedLine, "protein")
    THEN [st EXCEPT !.nd.protein = StripLabel(trimmedLine, "protein")]
    ELSE IF TestLabel(trimmedLine, "carbs")
    THEN [st EXCEPT !.nd.carbs = StripLabel(trimmedLine, "carbs")]
    ELSE IF TestLabel(trimmedLine, "fat")
    THEN [st EXCEPT !.nd.fat = StripLabel(trimmedLine, "fat")]
    ELSE IF TestLabel(trimmedLine, "tip")
    THEN [st EXCEPT !.tipFound = TRUE, !.nd.tip = StripLabel(trimmedLine, "tip")]
    ELSE IF Len(trimmedLine) > 0
    THEN [st EXCEPT !.tipLines = Append(@, trimmedLine)]
    ELSE st

\* ParseStep keeping a macro field's first value when its label recurs.
ParseStepFirstWins(st, line) ==
    LET trimmedLine == Trim(line)
        keep(f) == IF st.nd[f] = <<>> THEN StripLabel(trimmedLine, f) ELSE st.nd[f]
    IN
    IF TestLabel(trimmedLine, "calories")
    THEN [st EXCEPT !.nd.calories = keep("calories")]
    ELSE IF TestLabel(trimmedLine, "protein")
    THEN [st EXCEPT !.nd.protein = keep("protein")]
    ELSE IF TestLabel(trimmedLine, "carbs")
    THEN [st EXCEPT !.nd.carbs = keep("carbs")]
    ELSE IF TestLabel(trimmedLine, "fat")
    THEN [st EXCEPT !.nd.fat = keep("fat")]
    ELSE IF TestLabel(trimmedLine, "tip")
    THEN [st EXCEPT !.tipFound = TRUE, !.nd.tip = StripLabel(trimmedLine, "tip")]
    ELSE IF st.tipFound /\ Len(trimmedLine) > 0
    THEN [st EXCEPT !.tipLines = Append(@, trimmedLine)]
    ELSE st

\* The body of the for loop, on the loop's state st = [nd, tipFound, tipLines].
ParseStep(st, line) ==
    LET trimmedLine == Trim(line) IN
    IF TestLabel(trimmedLine, "calories")
    THEN [st EXCEPT !.nd.calories = StripLabel(trimmedLine, "calories")]
    ELSE IF TestLabel(trimmedLine, "protein")
    THEN [st EXCEPT !.nd.protein = StripLabel(trimmedLine, "protein")]
    ELSE IF TestLabel(trimmedLine, "carbs")
    THEN [st EXCEPT !.nd.carbs = StripLabel(trimmedLine, "carbs")]
    ELSE IF TestLabel(trimmedLine, "fat")
    THEN [st EXCEPT !.nd.fat = StripLabel(trimmedLine, "fat")]
    ELSE IF TestLabel(trimmedLine, "tip")
    THEN [st EXCEPT !.tipFound = TRUE, !.nd.tip = StripLabel(trimmedLine, "tip")]
    ELSE IF st.tipFound /\ Len(trimmedLine) > 0
    THEN [st EXCEPT !.tipLines = Append(@, trimmedLine)]
    ELSE st

\* ParseCombine joining the collected lines onto tip without the space.
ParseCombineNoSpace(st) ==
    IF Len(st.tipLines) > 0
    THEN [st.nd EXCEPT !.tip = @ \o Join(st.tipLines, <<" ">>)]
    ELSE st.nd

\* The statement after the loop: the collected lines are joined onto tip.
ParseCombine(st) ==
    IF Len(st.tipLines) > 0
    THEN [st.nd EXCEPT !.tip = @ \o <<" ">> \o Join(st.tipLines, <<" ">>)]
    ELSE st.nd

ParseStart == [nd |-> EmptyNutritionData, tipFound |-> FALSE, tipLines |-> <<>>]

RECURSIVE ParseLoop(_, _)
ParseLoop(st, lines) ==
    IF lines = <<>> THEN st ELSE ParseLoop(ParseStep(st, Head(lines)), Tail(lines))

parseNutritionResult(resultText) ==
    ParseCombine(ParseLoop(ParseStart, Split(resultText, "\n")))

----------------------------------------------------------------------------
(* extractNumericValue *)

Zero == [n |-> 0, d |-> 0]

RECURSIVE Pow10(_)
Pow10(k) == IF k = 0 THEN 1 ELSE 10 * Pow10(k - 1)

\* The canonical form of the decimal n / 10^d.
RECURSIVE Normalize(_)
Normalize(x) ==
    IF x.d > 0 /\ x.n % 10 = 0 THEN Normalize([n |-> x.n \div 10, d |-> x.d - 1]) ELSE x

\* Number addition (the + of the reduce callbacks).
Add(a, b) ==
    LET d == IF a.d > b.d THEN a.d ELSE b.d
    IN  Normalize([n |-> a.n * Pow10(d - a.d) + b.n * Pow10(d - b.d), d |-> d])

\* Length of the longest prefix of s made of digits: the greedy \d+ .
RECURSIVE DigitRun(_)
DigitRun(s) ==
    IF s # <<>> /\ IsDigit(Head(s)) THEN 1 + DigitRun(Tail(s)) ELSE 0

\* MatchNumber with the regex /(\d+)/: no fraction.
RECURSIVE MatchInteger(_)
MatchInteger(s) ==
    IF s = <<>> THEN <<>>
    ELSE IF IsDigit(Head(s)) THEN SubSeq(s, 1, DigitRun(s))
    ELSE MatchInteger(Tail(s))

\* str.match(/(\d+(?:\.\d+)?)/): the leftmost match's text, <<>> for null.
RECURSIVE MatchNumber(_)
MatchNumber(s) ==
    IF s = <<>> THEN <<>>
    ELSE IF IsDigit(Head(s))
    THEN LET ip   == DigitRun(s)
             rest == SubSeq(s, ip + 1, Len(s))
             fp   == IF rest # <<>> /\ Head(rest) = "." THEN DigitRun(Tail(rest)) ELSE 0
         IN  IF fp > 0 THEN SubSeq(s, 1, ip + 1 + fp) ELSE SubSeq(s, 1, ip)
    ELSE MatchNumber(Tail(s))

\* The value of a run of digits.
RECURSIVE DecValue(_)
DecValue(ds) ==
    IF ds = <<>> THEN 0
    ELSE 10 * DecValue(SubSeq(ds, 1, Len(ds) - 1)) + DigitValue(ds[Len(ds)])

\* parseFloat on a match of the regex: digits, or digits "." digits.
ParseFloat(tok) ==
    LET ip == DigitRun(tok)
        fr == SubSeq(tok, ip + 2, Len(tok))
    IN  Normalize([n |-> DecValue(SubSeq(tok, 1, ip) \o fr), d |-> Len(fr)])

extractNumericValue(s) ==
    LET match == MatchNumber(s) IN
    IF match # <<>> THEN ParseFloat(match) ELSE Zero

----------------------------------------------------------------------------
(* NutritionPieChart: which of its two returns is taken *)

\* NutritionPieChart falling back as soon as one macro is zero.
NutritionPieChartAnyZero(nd) ==
    LET proteinValue == extractNumericValue(nd.protein)
        carbsValue   == extractNumericValue(nd.carbs)
        fatValue     == extractNumericValue(nd.fat)
    IN  IF proteinValue = Zero \/ carbsValue = Zero \/ fatValue = Zero
        THEN "fallback"
        ELSE "pie"

NutritionPieChart(nd) ==
    LET proteinValue == extractNumericValue(nd.protein)
        carbsValue   == extractNumericValue(nd.carbs)
        fatValue     == extractNumericValue(nd.fat)
    IN  IF proteinValue = Zero /\ carbsValue = Zero /\ fatValue = Zero
        THEN "fallback"
        ELSE "pie"

----------------------------------------------------------------------------
(* Texts *)

LnBlank == <<>>
LnSpaces == <<" ","\t">>
LnCalories == <<"c","a","l","o","r","i","e","s",":"," ","5">>
LnCaloriesUpper == <<"C","A","L","O","R","I","E","S",":","5">>
LnProtein == <<" ","P","r","o","t","e","i","n",":"," ","\t","3",".","5","g"," ">>
LnCarbs == <<"c","a","r","b","s",":"," ","6",":","5"," ","g">>
LnFatEmpty == <<"f","a","t",":">>
LnFat == <<"F","a","t",":"," ","2","g","\r">>
LnFatNoColon == <<"f","a","t"," ","9">>
LnFatMidLine == <<"x"," ","f","a","t",":"," ","9">>
LnTip == <<"t","i","p",":"," ","g","o">>
LnTipEmpty == <<"T","i","p",":">>
LnProse == <<"m","o","r","e">>

\* The lines the parser's input texts are made of.
InputLines ==
    {LnBlank, LnSpaces, LnCalories, LnCaloriesUpper, LnProtein, LnCarbs, LnFatEmpty,
     LnFat, LnFatNoColon, LnFatMidLine, LnTip, LnTipEmpty, LnProse}

RefLine1 == <<"C","a","l","o","r","i","e","s",":"," ","7","2","0"," ","k","c","a","l">>
RefLine2 == <<"P","r","o","t","e","i","n",":"," ","3","2","g">>
RefLine3 == <<"C","a","r","b","s",":"," ","6","5","g">>
RefLine4 == <<"F","a","t",":"," ","2","8","g">>
RefLine5 == <<"T","i","p",":"," ","A","d","d"," ","v","e","g","g","i","e","s",".">>
TipLine1 == <<"T","i","p",":"," ","E","a","t"," ","m","o","r","e"," ","f","i","b","e","r",".">>
TipLine2 == <<"A","l","s","o"," ","d","r","i","n","k"," ","w","a","t","e","r",".">>
MockLine1 == <<"C","a","l","o","r","i","e","s",":"," ","~","7","2","0"," ","k","c","a","l">>
MockLine5 == <<"T","i","p",":"," ","B","a","l","a","n","c","e"," ","t","h","i","s"," ","m","e","a","l"," ","w","i","t","h"," ","m","o","r","e"," ","v","e","g","g","i","e","s"," ","t","o"," ","i","m","p","r","o","v","e"," ","f","i","b","r","e"," ","a","n","d"," ","r","e","d","u","c","e"," ","o","v","e","r","a","l","l"," ","f","a","t",".">>

\* The five-line text of the parser's documented example.
RefText == Join(<<RefLine1, RefLine2, RefLine3, RefLine4, RefLine5>>, <<"\n">>)
\* The documented two-line tip.
TipText == Join(<<TipLine1, TipLine2>>, <<"\n">>)
\* The text the analysis route answers with.
MockText == Join(<<MockLine1, RefLine2, RefLine3, RefLine4, MockLine5>>, <<"\n">>)

\* Every text of at most MaxLines lines of InputLines, and the documented texts.
ParserInputs ==
    {Join(ls, <<"\n">>) : ls \in UNION {[1..n -> InputLines] : n \in 0..MaxLines}}
        \cup {RefText, TipText, MockText}

\* The characters the extractor's input strings are made of.
ExtractChars == {"0", "1", "5", ".", "g", "-", " "}

V32g == <<"3","2","g">>
VTilde720kcal == <<"~","7","2","0"," ","k","c","a","l">>
VNoData == <<"n","o"," ","d","a","t","a">>
V3p5g == <<"3",".","5","g">>
VRange == <<"2","0","-","3","0","g">>
VNA == <<"N","/","A">>
V0g == <<"0","g">>
V0p0 == <<"0",".","0">>

\* Every string of at most MaxStrLen characters of ExtractChars, and the
\* documented examples.
ExtractorInputs ==
    UNION {[1..n -> ExtractChars] : n \in 0..MaxStrLen}
        \cup {V32g, VTilde720kcal, VNoData, V3p5g, VRange}

MacroStrings == {<<>>, VNA, V0g, V0p0, V3p5g, V32g}

\* The props of the chart: any macro strings, with and without calories and tip.
ChartInputs ==
    [calories : {<<>>, VTilde720kcal}, protein : MacroStrings, carbs : MacroStrings,
     fat : MacroStrings, tip : {<<>>, LnProse}]

----------------------------------------------------------------------------
(* Home: values *)

\* A value that may be null: <<>> is null, <<x>> is x.
None == <<>>
Some(x) == <<x>>

\* The truthiness of a string-or-null cell: null and "" are falsy.
Truthy(cell) == cell # None /\ cell[1] # <<>>

MsgFailedAnalyse == <<"F","a","i","l","e","d"," ","t","o"," ","a","n","a","l","y","s","e"," ","i","m","a","g","e">>
MsgFailedFetch == <<"F","a","i","l","e","d"," ","t","o"," ","f","e","t","c","h">>

\* The template `<warning sign> Error: ${err.message}`; "!" stands for the
\* warning sign.
ErrorResult(message) == <<"!"," ","E","r","r","o","r",":"," ">> \o message

\* A second analysis text: a decimal, a label without its colon, an empty tip
\* with a continuation line.
SecondText == Join(<<LnProtein, LnFatNoColon, LnTipEmpty, LnProse>>, <<"\n">>)

\* What the analysis endpoint can answer: a result text with an OK status, an
\* error with a non-OK status, or no answer at all (fetch rejects).
AnalysisAnswers ==
    {[ok |-> TRUE, body |-> t] : t \in {MockText, SecondText}}
        \cup {[ok |-> FALSE, body |-> m] : m \in {MsgFailedAnalyse, MsgFailedFetch}}

\* The reduce of one Daily Totals cell: a left fold of + from 0.
RECURSIVE Reduce(_, _, _)
Reduce(meals, f, sum) ==
    IF meals = <<>> THEN sum ELSE Reduce(Tail(meals), f, Add(sum, Head(meals)[f]))

DailyTotals(meals) ==
    [calories |-> Reduce(meals, "calories", Zero),
     protein  |-> Reduce(meals, "protein", Zero),
     carbs    |-> Reduce(meals, "carbs", Zero),
     fat      |-> Reduce(meals, "fat", Zero)]

\* The Today's Meals section is rendered for a non-empty list only.
RenderTotals(meals) ==
    IF Len(meals) > 0 THEN Some(DailyTotals(meals)) ELSE None

\* Render showing the totals of the list as it was before the handler ran.
RenderStale ==
    /\ dailyTotals' = RenderTotals(todaysMeals)
    /\ UNCHANGED <<parserVars, extractorVars, chartVars, routeVars>>

\* React renders again after a handler's state updates; the handlers do not
\* touch the variables of the function calls below.
Render ==
    /\ dailyTotals' = RenderTotals(todaysMeals')
    /\ UNCHANGED <<parserVars, extractorVars, chartVars, routeVars>>

\* NewMeal with the protein and carbs values exchanged.
NewMealSwapped(resultText, clock) ==
    LET nd == parseNutritionResult(resultText) IN
    [id        |-> clock,
     name      |-> "AI Analyzed Meal",
     calories  |-> extractNumericValue(nd.calories),
     protein   |-> extractNumericValue(nd.carbs),
     carbs     |-> extractNumericValue(nd.protein),
     fat       |-> extractNumericValue(nd.fat),
     timestamp |-> clock]

\* The entry saveMealFromAnalysis builds from the current result.
NewMeal(resultText, clock) ==
    LET nd == parseNutritionResult(resultText) IN
    [id        |-> clock,
     name      |-> "AI Analyzed Meal",
     calories  |-> extractNumericValue(nd.calories),
     protein   |-> extractNumericValue(nd.protein),
     carbs     |-> extractNumericValue(nd.carbs),
     fat       |-> extractNumericValue(nd.fat),
     timestamp |-> clock]

\* The asynchronous calls awaiting their answer.
PendingCalls ==
    [analysis |-> Cardinality(analyses) + Len(blobJobs),
     barcode  |-> barcodeReqs,
     camera   |-> cameraReqs]

\* One more call of this kind stays within the bounds.
MayStart(kind, cap) ==
    /\ PendingCalls[kind] < cap
    /\ Cardinality({k \in DOMAIN PendingCalls \ {kind} : PendingCalls[k] > 0}) < MaxKinds

\* URL.createObjectURL gives a URL no live reference holds: the least unused.
FreshImage ==
    LET used == {image, answeredImage} \cup {r.img : r \in analyses}
    IN  CHOOSE i \in 1..(Cardinality(used) + 1) :
            i \notin used /\ \A j \in 1..(i - 1) : j \in used

\* getUserMedia gives a new stream: the least identity no reference holds.
FreshStream ==
    LET used == {stream} \cup liveStreams \cup {blobJobs[i] : i \in DOMAIN blobJobs}
    IN  CHOOSE i \in 1..(Cardinality(used) + 1) :
            i \notin used /\ \A j \in 1..(i - 1) : j \in used

\* The panel with the Save and Upload New Image buttons is rendered.
ShowsResultPanel == Truthy(result)

----------------------------------------------------------------------------
(* Home: event handlers and the continuations of their awaits *)

\* onChange of the file input, reached through the "upload from gallery"
\* label.  The fetch is issued before the handler first suspends.
handleUploadUpTo(cap) ==
    /\ ~showCamera
    /\ \E hasFile \in BOOLEAN :
        IF ~hasFile
        THEN UNCHANGED <<image, isLoading, analyses>>
        ELSE /\ MayStart("analysis", cap)
             /\ image' = FreshImage
             /\ isLoading' = TRUE
             /\ analyses' = analyses \cup {[img |-> FreshImage, origin |-> "upload"]}
    /\ UNCHANGED <<result, answeredImage, barcodeData, barcodeError, todaysMeals, showCamera,
                   stream, cameraError, now, barcodeReqs, cameraReqs, blobJobs, liveStreams>>
    /\ Render

handleUpload == handleUploadUpTo(MaxPending)

\* handleUpload while an earlier analysis may still be awaited.
handleUploadOverlapping == handleUploadUpTo(MaxOverlap)

\* AnalysisSettled fetching again after a failure.
AnalysisSettledRetrying(r, answer) ==
    /\ analyses' = IF answer.ok THEN analyses \ {r} ELSE analyses
    /\ result' = IF answer.ok THEN Some(answer.body) ELSE result
    /\ answeredImage' = IF answer.ok THEN r.img ELSE answeredImage
    /\ isLoading' = ~answer.ok
    /\ UNCHANGED <<image, barcodeData, barcodeError, todaysMeals, showCamera,
                   stream, cameraError, now, barcodeReqs, cameraReqs, blobJobs, liveStreams>>

\* The rest of a try / catch / finally around the fetch of /api/analyse.
AnalysisSettled(r, answer) ==
    /\ analyses' = analyses \ {r}
    /\ result' = IF answer.ok THEN Some(answer.body) ELSE Some(ErrorResult(answer.body))
    /\ answeredImage' = r.img
    /\ isLoading' = FALSE
    /\ UNCHANGED <<image, barcodeData, barcodeError, todaysMeals, showCamera,
                   stream, cameraError, now, barcodeReqs, cameraReqs, blobJobs, liveStreams>>

handleUploadSettled ==
    /\ \E r \in analyses, answer \in AnalysisAnswers :
           r.origin = "upload" /\ AnalysisSettled(r, answer)
    /\ Render

\* handleNewUpload emptying the meal list too.
handleNewUploadClearsMeals ==
    /\ ShowsResultPanel
    /\ image' = 0
    /\ result' = None
    /\ answeredImage' = 0
    /\ todaysMeals' = <<>>
    /\ UNCHANGED <<isLoading, barcodeData, barcodeError, showCamera, stream, cameraError,
                   envVars>>
    /\ Render

handleNewUpload ==
    /\ ShowsResultPanel
    /\ image' = 0
    /\ result' = None
    /\ answeredImage' = 0
    /\ UNCHANGED <<isLoading, barcodeData, barcodeError, todaysMeals, showCamera,
                   stream, cameraError, envVars>>
    /\ Render

\* The Search button or the Enter key.  The barcode input's cell only names
\* the product in the URL; what the lookup answers is the service's choice.
handleBarcodeSearchUpTo(cap) ==
    /\ MayStart("barcode", cap)
    /\ barcodeError' = ""
    /\ barcodeData' = None
    /\ barcodeReqs' = barcodeReqs + 1
    /\ UNCHANGED <<image, result, answeredImage, isLoading, todaysMeals, showCamera, stream,
                   cameraError, now, analyses, cameraReqs, blobJobs, liveStreams>>
    /\ Render

handleBarcodeSearch == handleBarcodeSearchUpTo(MaxPending)

\* handleBarcodeSearch while an earlier lookup may still be awaited.
handleBarcodeSearchOverlapping == handleBarcodeSearchUpTo(MaxOverlap)

\* The lookup answered with status 1.
handleBarcodeFound ==
    /\ barcodeReqs > 0
    /\ barcodeReqs' = barcodeReqs - 1
    /\ barcodeData' = Some("product")
    /\ UNCHANGED <<image, result, answeredImage, isLoading, barcodeError, todaysMeals,
                   showCamera, stream, cameraError, now, analyses, cameraReqs, blobJobs,
                   liveStreams>>
    /\ Render

\* The lookup answered with another status, or the fetch was rejected.
handleBarcodeFailed ==
    /\ barcodeReqs > 0
    /\ barcodeReqs' = barcodeReqs - 1
    /\ \E message \in {"Product not found", "Failed to fetch"} : barcodeError' = message
    /\ UNCHANGED <<image, result, answeredImage, isLoading, barcodeData, todaysMeals,
                   showCamera, stream, cameraError, now, analyses, cameraReqs, blobJobs,
                   liveStreams>>
    /\ Render

\* The meal list saveMealFromAnalysis leaves, the result cell and the clock
\* being as given.
MealsAfterSave(currentResult, meals, clock) ==
    IF ~Truthy(currentResult)
    THEN meals
    ELSE Append(meals, NewMeal(currentResult[1], clock))

\* The "Save to Today" button of the result panel.
saveMealFromAnalysis ==
    /\ ShowsResultPanel
    /\ Len(todaysMeals) < MaxMeals
    /\ todaysMeals' = MealsAfterSave(result, todaysMeals, now)
    /\ UNCHANGED <<image, result, answeredImage, isLoading, barcodeData, barcodeError,
                   showCamera, stream, cameraError, envVars>>
    /\ Render

\* The "Take Photo" button: getUserMedia is asked for a stream.
openCameraUpTo(cap) ==
    /\ ~showCamera
    /\ MayStart("camera", cap)
    /\ cameraReqs' = cameraReqs + 1
    /\ UNCHANGED <<homeVars, answeredImage, now, analyses, barcodeReqs, blobJobs, liveStreams>>
    /\ Render

openCamera == openCameraUpTo(MaxPending)

\* openCamera while an earlier getUserMedia may still be awaited.
openCameraOverlapping == openCameraUpTo(MaxOverlap)

openCameraGranted ==
    /\ cameraReqs > 0
    /\ Cardinality(liveStreams) < MaxStreams
    /\ cameraReqs' = cameraReqs - 1
    /\ liveStreams' = liveStreams \cup {FreshStream}
    /\ stream' = FreshStream
    /\ showCamera' = TRUE
    /\ cameraError' = ""
    /\ UNCHANGED <<image, result, answeredImage, isLoading, barcodeData, barcodeError,
                   todaysMeals, now, analyses, barcodeReqs, blobJobs>>
    /\ Render

openCameraDenied ==
    /\ cameraReqs > 0
    /\ cameraReqs' = cameraReqs - 1
    /\ cameraError' = "Camera access needed to take photos"
    /\ UNCHANGED <<image, result, answeredImage, isLoading, barcodeData, barcodeError,
                   todaysMeals, showCamera, stream, now, analyses, barcodeReqs, blobJobs,
                   liveStreams>>
    /\ Render

\* The Capture button: toBlob is given a callback that closes over this
\* render's stream.
capturePhotoUpTo(cap) ==
    /\ showCamera
    /\ IF stream = 0
       THEN UNCHANGED blobJobs
       ELSE MayStart("analysis", cap) /\ blobJobs' = Append(blobJobs, stream)
    /\ UNCHANGED <<homeVars, answeredImage, now, analyses, barcodeReqs, cameraReqs, liveStreams>>
    /\ Render

capturePhoto == capturePhotoUpTo(MaxPending)

\* capturePhoto while an earlier capture or upload may still be awaited.
capturePhotoOverlapping == capturePhotoUpTo(MaxOverlap)

\* The toBlob callback, up to its fetch; closeCamera is the callback's own
\* closure, over the stream of the render capturePhoto ran in.
capturePhotoBlob ==
    /\ \E i \in DOMAIN blobJobs, hasBlob \in BOOLEAN :
        /\ blobJobs' = SubSeq(blobJobs, 1, i - 1) \o SubSeq(blobJobs, i + 1, Len(blobJobs))
        /\ IF ~hasBlob
           THEN UNCHANGED <<image, isLoading, analyses, stream, showCamera, liveStreams>>
           ELSE /\ image' = FreshImage
                /\ liveStreams' = liveStreams \ {blobJobs[i]}
                /\ stream' = 0
                /\ showCamera' = FALSE
                /\ isLoading' = TRUE
                /\ analyses' = analyses \cup {[img |-> FreshImage, origin |-> "capture"]}
    /\ UNCHANGED <<result, answeredImage, barcodeData, barcodeError, todaysMeals, cameraError, now,
                   barcodeReqs, cameraReqs>>
    /\ Render

capturePhotoSettled ==
    /\ \E r \in analyses, answer \in AnalysisAnswers :
           r.origin = "capture" /\ AnalysisSettled(r, answer)
    /\ Render

\* The Cancel button.
closeCamera ==
    /\ showCamera
    /\ IF stream # 0
       THEN liveStreams' = liveStreams \ {stream} /\ stream' = 0
       ELSE UNCHANGED <<liveStreams, stream>>
    /\ showCamera' = FALSE
    /\ UNCHANGED <<image, result, answeredImage, isLoading, barcodeData, barcodeError,
                   todaysMeals, cameraError, now, analyses, barcodeReqs, cameraReqs,
                   blobJobs>>
    /\ Render

\* A millisecond passes.
Tick ==
    /\ now < MaxClock
    /\ now' = now + 1
    /\ UNCHANGED <<homeVars, answeredImage, analyses, barcodeReqs, cameraReqs, blobJobs, liveStreams>>
    /\ Render

----------------------------------------------------------------------------
(* POST of /api/analyse: the mock handler (route.ts) and the OpenAI handler *)

\* What formData.get('file') can give: null, a File of an image type, a File
\* of another type, or the string of a text field named file, which may be
\* the empty string.
FileEntries == {"none", "image", "document", "text", "empty"}

\* The requests: a body that req.formData() can or cannot read, and its entry.
Requests == [readable : BOOLEAN, file : FileEntries]

MsgNoFile == "No file uploaded"
MsgNotImage == "Uploaded file must be an image"
MsgMockFailed == "Failed to analyse image"
MsgNoKey == "OpenAI API key not configured. Please add OPENAI_API_KEY to your environment variables."
MsgNoContent == "No analysis result received from OpenAI"

\* What the thrown errors say that the handlers do not word themselves.
ThrownMessages == {"TypeError", "APIError"}

\* return NextResponse.json(body, { status })
Respond(status, body) ==
    /\ responses' = Append(responses, [status |-> status, body |-> body])
    /\ rpc' = "done"

\* The catch block letting the error out instead of answering.
CatchRethrows(message) ==
    /\ rpc' = "uncaught"
    /\ UNCHANGED responses

\* The catch block: the mock handler answers with its own message, the OpenAI
\* handler with the message of the error.
Catch(message) ==
    IF route = "mock"
    THEN Respond(500, [error |-> MsgMockFailed])
    ELSE Respond(500, [error |-> message])

\* The OpenAI handler's first statement.
validateOpenAIConfig ==
    /\ rpc = "validate"
    /\ IF ~apiKey
       THEN Catch(MsgNoKey)
       ELSE rpc' = "form" /\ UNCHANGED responses
    /\ UNCHANGED <<route, apiKey, request, attempts, parserVars, extractorVars, chartVars, pageVars>>

\* await req.formData()
POSTFormData ==
    /\ rpc = "form"
    /\ IF ~request.readable
       THEN Catch("TypeError")
       ELSE rpc' = "file" /\ UNCHANGED responses
    /\ UNCHANGED <<route, apiKey, request, attempts, parserVars, extractorVars, chartVars, pageVars>>

\* if (!file)
POSTFile ==
    /\ rpc = "file"
    /\ IF request.file \in {"none", "empty"}
       THEN Respond(400, [error |-> MsgNoFile])
       ELSE /\ rpc' = IF route = "mock" THEN "mock" ELSE "type"
            /\ UNCHANGED responses
    /\ UNCHANGED <<route, apiKey, request, attempts, parserVars, extractorVars, chartVars, pageVars>>

\* The mock handler: the file is read, and the mock text is the answer.  A
\* text field has no arrayBuffer method, and reading a file can fail.
POSTMock ==
    /\ rpc = "mock"
    /\ attempts' = attempts + 1
    /\ \E read \in BOOLEAN :
        IF request.file = "text" \/ ~read
        THEN Catch("TypeError")
        ELSE Respond(200, [result |-> MockText])
    /\ UNCHANGED <<route, apiKey, request, parserVars, extractorVars, chartVars, pageVars>>

\* The OpenAI handler: if (!file.type.startsWith('image/')).  A text field
\* has no type.
POSTFileType ==
    /\ rpc = "type"
    /\ IF request.file = "text"
       THEN Catch("TypeError")
       ELSE IF request.file # "image"
       THEN Respond(400, [error |-> MsgNotImage])
       ELSE rpc' = "base64" /\ UNCHANGED responses
    /\ UNCHANGED <<route, apiKey, request, attempts, parserVars, extractorVars, chartVars, pageVars>>

\* await fileToBase64(file)
fileToBase64 ==
    /\ rpc = "base64"
    /\ \E read \in BOOLEAN :
        IF ~read
        THEN Catch("TypeError")
        ELSE rpc' = "analyse" /\ UNCHANGED responses
    /\ UNCHANGED <<route, apiKey, request, attempts, parserVars, extractorVars, chartVars, pageVars>>

\* await analyzeImageWithAI(base64Image) and the return of its result: the
\* completion has content, or none, or the call throws.
analyzeImageWithAI ==
    /\ rpc = "analyse"
    /\ attempts' = attempts + 1
    /\ \/ \E content \in {MockText, SecondText} : Respond(200, [result |-> content])
       \/ Catch(MsgNoContent)
       \/ \E message \in ThrownMessages : Catch(message)
    /\ UNCHANGED <<route, apiKey, request, parserVars, extractorVars, chartVars, pageVars>>

----------------------------------------------------------------------------
(* The functions, applied to an input *)

\* One iteration of the parser's for loop.
ParseLine ==
    /\ ppc = "loop"
    /\ lineIdx < Len(Split(text, "\n"))
    /\ LET st == ParseStep([nd |-> nutritionData, tipFound |-> tipFound,
                            tipLines |-> tipLines], Split(text, "\n")[lineIdx + 1])
       IN  /\ nutritionData' = st.nd
           /\ tipFound' = st.tipFound
           /\ tipLines' = st.tipLines
    /\ lineIdx' = lineIdx + 1
    /\ UNCHANGED <<text, ppc, extractorVars, chartVars, pageVars, routeVars>>

\* The end of the loop, the joining of the tip and the return.
ParseReturn ==
    /\ ppc = "loop"
    /\ lineIdx = Len(Split(text, "\n"))
    /\ nutritionData' = ParseCombine([nd |-> nutritionData, tipFound |-> tipFound,
                                      tipLines |-> tipLines])
    /\ ppc' = "done"
    /\ UNCHANGED <<text, lineIdx, tipFound, tipLines, extractorVars, chartVars, pageVars, routeVars>>

CallExtractNumericValue ==
    /\ extracted = None
    /\ extracted' = Some(extractNumericValue(str))
    /\ UNCHANGED <<str, parserVars, chartVars, pageVars, routeVars>>

CallNutritionPieChart ==
    /\ chartView = "none"
    /\ chartView' = NutritionPieChart(chartProps)
    /\ UNCHANGED <<chartProps, parserVars, extractorVars, pageVars, routeVars>>

----------------------------------------------------------------------------
(* Specifications *)

ParserIdle ==
    /\ text = <<>>
    /\ lineIdx = 0
    /\ nutritionData = EmptyNutritionData
    /\ tipFound = FALSE
    /\ tipLines = <<>>
    /\ ppc = "idle"

ExtractorIdle == str = <<>> /\ extracted = None

RouteIdle ==
    /\ route = "mock"
    /\ apiKey = FALSE
    /\ request = [readable |-> FALSE, file |-> "none"]
    /\ rpc = "idle"
    /\ responses = <<>>
    /\ attempts = 0

ChartIdle == chartProps = EmptyNutritionData /\ chartView = "none"

\* The page after its first render.
HomeInit ==
    /\ image = 0
    /\ result = None
    /\ isLoading = FALSE
    /\ barcodeData = None
    /\ barcodeError = ""
    /\ todaysMeals = <<>>
    /\ showCamera = FALSE
    /\ stream = 0
    /\ cameraError = ""
    /\ dailyTotals = RenderTotals(<<>>)
    /\ now = 0
    /\ analyses = {}
    /\ barcodeReqs = 0
    /\ cameraReqs = 0
    /\ blobJobs = <<>>
    /\ liveStreams = {}
    /\ answeredImage = 0

Init == HomeInit /\ ParserIdle /\ ExtractorIdle /\ ChartIdle /\ RouteIdle

Next ==
    \/ handleUpload
    \/ handleUploadSettled
    \/ handleNewUpload
    \/ handleBarcodeSearch
    \/ handleBarcodeFound
    \/ handleBarcodeFailed
    \/ saveMealFromAnalysis
    \/ openCamera
    \/ openCameraGranted
    \/ openCameraDenied
    \/ capturePhoto
    \/ capturePhotoBlob
    \/ capturePhotoSettled
    \/ closeCamera
    \/ Tick

\* The page.
Spec == Init /\ [][Next]_vars

OverlapNext ==
    \/ handleUploadOverlapping
    \/ handleUploadSettled
    \/ handleNewUpload
    \/ handleBarcodeSearchOverlapping
    \/ handleBarcodeFound
    \/ handleBarcodeFailed
    \/ openCameraOverlapping
    \/ openCameraGranted
    \/ openCameraDenied
    \/ capturePhotoOverlapping
    \/ capturePhotoBlob
    \/ capturePhotoSettled
    \/ closeCamera

\* The page with overlapping asynchronous calls, nothing being saved.
SpecOverlap == Init /\ [][OverlapNext]_vars

ParserInit ==
    /\ text \in ParserInputs
    /\ lineIdx = 0
    /\ nutritionData = EmptyNutritionData
    /\ tipFound = FALSE
    /\ tipLines = <<>>
    /\ ppc = "loop"
    /\ HomeInit /\ ExtractorIdle /\ ChartIdle /\ RouteIdle

ParserNext ==
    \/ ParseLine
    \/ ParseReturn

\* parseNutritionResult on every input text.
SpecParser == ParserInit /\ [][ParserNext]_vars

ExtractorInit ==
    /\ str \in ExtractorInputs
    /\ extracted = None
    /\ HomeInit /\ ParserIdle /\ ChartIdle /\ RouteIdle

ExtractorNext == CallExtractNumericValue

\* extractNumericValue on every input string.
SpecExtractor == ExtractorInit /\ [][ExtractorNext]_vars

ChartInit ==
    /\ chartProps \in ChartInputs
    /\ chartView = "none"
    /\ HomeInit /\ ParserIdle /\ ExtractorIdle /\ RouteIdle

ChartNext == CallNutritionPieChart

\* NutritionPieChart on every props record.
SpecChart == ChartInit /\ [][ChartNext]_vars

RouteInit ==
    /\ route \in {"mock", "openai"}
    /\ apiKey \in BOOLEAN
    /\ request \in Requests
    /\ rpc = IF route = "mock" THEN "form" ELSE "validate"
    /\ responses = <<>>
    /\ attempts = 0
    /\ HomeInit /\ ParserIdle /\ ExtractorIdle /\ ChartIdle

RouteNext ==
    \/ validateOpenAIConfig
    \/ POSTFormData
    \/ POSTFile
    \/ POSTMock
    \/ POSTFileType
    \/ fileToBase64
    \/ analyzeImageWithAI

\* One POST to /api/analyse, for each handler, environment and request.
SpecRoute == RouteInit /\ [][RouteNext]_vars

----------------------------------------------------------------------------
(* What the claims are stated with *)

MacroFields == {"calories", "protein", "carbs", "fat"}

\* The labels, as the documentation names them.
NameText ==
    [calories |-> <<"c","a","l","o","r","i","e","s">>,
     protein  |-> <<"p","r","o","t","e","i","n">>,
     carbs    |-> <<"c","a","r","b","s">>,
     fat      |-> <<"f","a","t">>,
     tip      |-> <<"t","i","p">>]

\* The lines of the parser's input, and one of them trimmed.
InputOf(t) == Split(t, "\n")
TrimmedLine(i) == Trim(InputOf(text)[i])

\* t starts with the label of f, in any letter case, and then a colon.
Labelled(t, f) ==
    /\ Len(t) > Len(NameText[f])
    /\ \A i \in 1..Len(NameText[f]) : t[i] \in {NameText[f][i], ToUpper(NameText[f][i])}
    /\ t[Len(NameText[f]) + 1] = ":"

\* v is what t holds after the label of f, its colon and the white space that
\* follows them, character for character.
IsRemainder(t, f, v) ==
    LET p == Len(NameText[f]) + 1 IN
    \E k \in 0..Len(t) :
        /\ p + k + Len(v) = Len(t)
        /\ \A i \in (p + 1)..(p + k) : t[i] \in WhiteSpace
        /\ \A i \in 1..Len(v) : v[i] = t[p + k + i]
        /\ v # <<>> => v[1] \notin WhiteSpace /\ v[Len(v)] \notin WhiteSpace

\* The lines among the first n that carry the label of f.
LabelledLines(f, n) == {i \in 1..n : Labelled(TrimmedLine(i), f)}

Last(S) == CHOOSE i \in S : \A j \in S : j <= i

NoLabel(t) == \A f \in Fields : ~Labelled(t, f)

----------------------------------------------------------------------------
(* parseNutritionResult: C1 to C5, under SpecParser *)

\* C1: for every input text, the empty one and those without labels or with
\* extra prose included, parseNutritionResult is at a line of the text or at
\* its end until it returns (so its next step can be taken), and the record
\* it returns has the five fields calories, protein, carbs, fat and
\* tip, each a string, and each the empty string when no line of the text
\* carries its label.
C1_ParserTotal ==
    /\ ppc \in {"loop", "done"}
    /\ ppc = "loop" => lineIdx \in 0..Len(InputOf(text))
    /\ ppc = "done" =>
        /\ nutritionData = parseNutritionResult(text)
        /\ DOMAIN nutritionData = Fields
        /\ \A f \in Fields :
            /\ nutritionData[f] \in Seq(Char)
            /\ LabelledLines(f, Len(InputOf(text))) = {} => nutritionData[f] = <<>>

\* A text of prose without any label has been parsed to five empty strings.
C1_Witness ==
    /\ ppc = "done"
    /\ \E i \in DOMAIN InputOf(text) : TrimmedLine(i) # <<>>
    /\ \A i \in DOMAIN InputOf(text) : NoLabel(TrimmedLine(i))
    /\ nutritionData = EmptyNutritionData

\* C2: once a line carrying one of the labels calories:, protein:, carbs: or
\* fat: has been processed, that field holds exactly what the trimmed line
\* holds after the label and the white space following it, further colons
\* and trailing text included; the five-line reference text gives
\* "720 kcal", "32g", "65g", "28g" and "Add veggies.".
C2_StoredValue ==
    /\ (ppc = "loop" /\ lineIdx > 0) =>
        \A f \in MacroFields :
            Labelled(TrimmedLine(lineIdx), f) =>
                IsRemainder(TrimmedLine(lineIdx), f, nutritionData[f])
    /\ (ppc = "done" /\ text = RefText) =>
        nutritionData =
            [calories |-> <<"7","2","0"," ","k","c","a","l">>,
             protein  |-> <<"3","2","g">>,
             carbs    |-> <<"6","5","g">>,
             fat      |-> <<"2","8","g">>,
             tip      |-> <<"A","d","d"," ","v","e","g","g","i","e","s",".">>]

\* The line "carbs: 6:5 g" has just been processed and carbs holds "6:5 g".
C2_Witness ==
    /\ ppc = "loop"
    /\ lineIdx > 0
    /\ TrimmedLine(lineIdx) = LnCarbs
    /\ nutritionData.carbs = <<"6",":","5"," ","g">>

\* The line l with the letters of its label, if it carries one, in upper
\* case (up) or in lower case.
RecaseLine(l, up) ==
    LET lead == Len(l) - Len(TrimStart(l))
        n    == IF NoLabel(Trim(l)) THEN 0
                ELSE Len(NameText[CHOOSE f \in Fields : Labelled(Trim(l), f)])
    IN  [i \in 1..Len(l) |->
            IF i > lead /\ i <= lead + n
            THEN IF up THEN ToUpper(l[i]) ELSE ToLower(l[i])
            ELSE l[i]]

\* The text t with every label recased.
RecaseLabels(t, up) ==
    Join([i \in DOMAIN InputOf(t) |-> RecaseLine(InputOf(t)[i], up)], <<"\n">>)

Calories500Upper == <<"C","A","L","O","R","I","E","S",":"," ","5","0","0">>
Calories500Lower == <<"c","a","l","o","r","i","e","s",":"," ","5","0","0">>

\* C3: processing a line sets a field to the line's remainder if the trimmed
\* line starts with the field's label and a colon, in any letter case, and
\* leaves the field as it was otherwise (a label without its colon, or not at
\* the start of the line, sets nothing); and the parser's output is the same
\* with every label of the text in upper case or in lower case:
\* "CALORIES: 500" parses as "calories: 500" does.
C3_LabelMatch ==
    /\ [](ppc = "done" =>
            /\ parseNutritionResult(RecaseLabels(text, TRUE)) = nutritionData
            /\ parseNutritionResult(RecaseLabels(text, FALSE)) = nutritionData
            /\ parseNutritionResult(Calories500Upper)
                   = parseNutritionResult(Calories500Lower))
    /\ [][lineIdx' = lineIdx + 1 =>
            \A f \in Fields :
                IF Labelled(TrimmedLine(lineIdx'), f)
                THEN IsRemainder(TrimmedLine(lineIdx'), f, nutritionData'[f])
                ELSE nutritionData'[f] = nutritionData[f]]_vars

\* A text with "CALORIES:5" and with "x fat: 9" or "fat 9" has been parsed:
\* calories is "5" and fat is empty.
C3_Witness ==
    /\ ppc = "done"
    /\ \E i \in DOMAIN InputOf(text) : InputOf(text)[i] = LnCaloriesUpper
    /\ \E i \in DOMAIN InputOf(text) : InputOf(text)[i] = LnFatMidLine
    /\ \E i \in DOMAIN InputOf(text) : InputOf(text)[i] = LnFatNoColon
    /\ nutritionData.calories = <<"5">>
    /\ nutritionData.fat = <<>>

\* C4: when several lines carry the same label among calories:, protein:,
\* carbs: and fat:, the field returned is the remainder of the last of them,
\* whatever the earlier ones held and also when that remainder is empty.
C4_LastWriteWins ==
    ppc = "done" =>
        \A f \in MacroFields :
            LET S == LabelledLines(f, Len(InputOf(text))) IN
            S # {} => IsRemainder(TrimmedLine(Last(S)), f, nutritionData[f])

\* A text whose first fat: line holds "2g" and whose last fat: line holds
\* nothing has been parsed, and fat is empty.
C4_Witness ==
    /\ ppc = "done"
    /\ LET S == LabelledLines("fat", Len(InputOf(text))) IN
        /\ Cardinality(S) >= 2
        /\ \E i \in S : IsRemainder(TrimmedLine(i), "fat", <<"2","g">>)
        /\ IsRemainder(TrimmedLine(Last(S)), "fat", <<>>)
    /\ nutritionData.fat = <<>>

\* The lines after line k that continue a tip, each with a space before it.
RECURSIVE Continuation(_, _)
Continuation(k, n) ==
    IF k >= n THEN <<>>
    ELSE (IF TrimmedLine(k + 1) # <<>> /\ NoLabel(TrimmedLine(k + 1))
          THEN <<" ">> \o TrimmedLine(k + 1)
          ELSE <<>>) \o Continuation(k + 1, n)

\* C5: for a text with exactly one tip: line, the tip returned is that line's
\* remainder followed by every later line that is not blank and carries no
\* label, in order, each after a single space; earlier lines, blank lines and
\* labelled lines add nothing; without a tip: line the tip is empty; the
\* documented two-line tip gives "Eat more fiber. Also drink water.".
C5_TipContinuation ==
    ppc = "done" =>
        LET n == Len(InputOf(text))
            S == LabelledLines("tip", n)
        IN  /\ S = {} => nutritionData.tip = <<>>
            /\ Cardinality(S) = 1 =>
                \E v \in {SubSeq(nutritionData.tip, 1, m) : m \in 0..Len(nutritionData.tip)} :
                    /\ IsRemainder(TrimmedLine(Last(S)), "tip", v)
                    /\ nutritionData.tip = v \o Continuation(Last(S), n)
            /\ text = TipText =>
                nutritionData.tip =
                    <<"E","a","t"," ","m","o","r","e"," ","f","i","b","e","r","."," ",
                      "A","l","s","o"," ","d","r","i","n","k"," ","w","a","t","e","r",".">>

\* The text "more / tip: go / more" has been parsed: the line before the tip
\* adds nothing, the line after it is joined on.
C5_Witness ==
    /\ ppc = "done"
    /\ InputOf(text) = <<LnProse, LnTip, LnProse>>
    /\ nutritionData.tip = <<"g","o"," ","m","o","r","e">>

----------------------------------------------------------------------------
(* extractNumericValue: C6, under SpecExtractor *)

DigitPositions(s) == {i \in 1..Len(s) : IsDigit(s[i])}

\* The end of the maximal run of digits of s that starts at p.
RunEnd(s, p) ==
    CHOOSE q \in p..Len(s) :
        /\ \A i \in p..q : IsDigit(s[i])
        /\ q < Len(s) => ~IsDigit(s[q + 1])

\* The leftmost numeric token of a string with a digit: its integer digits and
\* its fraction digits (none without a decimal point followed by a digit).
LeftmostToken(s) ==
    LET p == CHOOSE i \in DigitPositions(s) : \A j \in DigitPositions(s) : i <= j
        q == RunEnd(s, p)
        hasFraction == q + 2 <= Len(s) /\ s[q + 1] = "." /\ IsDigit(s[q + 2])
    IN  [int  |-> SubSeq(s, p, q),
         frac |-> IF hasFraction THEN SubSeq(s, q + 2, RunEnd(s, q + 2)) ELSE <<>>]

\* The number written by a run of digits, most significant digit first.
RECURSIVE PosValue(_)
PosValue(ds) ==
    IF ds = <<>> THEN 0
    ELSE DigitValue(Head(ds)) * Pow10(Len(ds) - 1) + PosValue(Tail(ds))

\* C6: extractNumericValue returns the value of the leftmost numeric token of
\* its string (a maximal run of digits, then optionally one decimal point and
\* more digits), whatever comes before the token and whatever number comes
\* after it, and returns 0 exactly when the string has no digit or the token
\* is worth zero: "32g" gives 32, "~720 kcal" 720, "3.5g" 3.5, "20-30g" 20
\* and "no data" 0.
C6_LeftmostToken ==
    extracted # None =>
        LET v == extracted[1]
            D == DigitPositions(str)
        IN  /\ v.n \in Nat /\ v.d \in Nat
            /\ v.d > 0 => v.n % 10 # 0
            /\ D = {} => v = Zero
            /\ D # {} =>
                LET tok == LeftmostToken(str) IN
                v.n * Pow10(Len(tok.frac)) = PosValue(tok.int \o tok.frac) * Pow10(v.d)
            /\ v = Zero <=>
                \/ D = {}
                \/ PosValue(LeftmostToken(str).int \o LeftmostToken(str).frac) = 0
            /\ str = V32g => v = [n |-> 32, d |-> 0]
            /\ str = VTilde720kcal => v = [n |-> 720, d |-> 0]
            /\ str = V3p5g => v = [n |-> 35, d |-> 1]
            /\ str = VRange => v = [n |-> 20, d |-> 0]
            /\ str = VNoData => v = Zero

\* "-1.5" has been extracted: the sign is ignored and the value is 1.5.
C6_Witness ==
    /\ str = <<"-", "1", ".", "5">>
    /\ extracted = Some([n |-> 15, d |-> 1])

----------------------------------------------------------------------------
(* NutritionPieChart: C8, under SpecChart *)

\* C8: the chart renders its fallback if and only if extractNumericValue
\* gives 0 for the protein, the carbs and the fat string alike; props with the
\* same three strings render the same whatever their calories and tip, and
\* three "N/A" macros render the fallback.
C8_ChartFallback ==
    chartView # "none" =>
        /\ chartView \in {"fallback", "pie"}
        /\ chartView = "fallback" <=>
            /\ extractNumericValue(chartProps.protein) = Zero
            /\ extractNumericValue(chartProps.carbs) = Zero
            /\ extractNumericValue(chartProps.fat) = Zero
        /\ \A q \in ChartInputs :
            (/\ q.protein = chartProps.protein
             /\ q.carbs = chartProps.carbs
             /\ q.fat = chartProps.fat) => NutritionPieChart(q) = chartView
        /\ (chartProps.protein = VNA /\ chartProps.carbs = VNA /\ chartProps.fat = VNA)
            => chartView = "fallback"

\* The pie has been rendered for props whose protein alone is not zero.
C8_Witness ==
    /\ chartView = "pie"
    /\ chartProps.protein = V3p5g
    /\ chartProps.carbs = VNA
    /\ chartProps.fat = V0g

----------------------------------------------------------------------------
(* Home: C7, C9 and C10, under Spec *)

TotalFields == {"calories", "protein", "carbs", "fat"}

\* The largest number of fraction digits of field f in the list.
MaxScale(meals, f) ==
    IF meals = <<>> THEN 0
    ELSE LET S == {meals[i][f].d : i \in DOMAIN meals}
         IN  CHOOSE d \in S : \A e \in S : e <= d

\* The sum of field f over the entries 1..k of the list, in units of 10^-m,
\* taken from the last entry to the first.
RECURSIVE SumScaled(_, _, _, _)
SumScaled(meals, f, k, m) ==
    IF k = 0 THEN 0
    ELSE meals[k][f].n * Pow10(m - meals[k][f].d) + SumScaled(meals, f, k - 1, m)

\* C7: in every state of the page each of the four totals shown is the sum of
\* its own field over exactly the entries of the meal list as it is now, so no
\* total is stale; the totals of an empty list are all 0, and the page shows
\* no totals for an empty list.
C7_TotalsLive ==
    /\ \A f \in TotalFields : DailyTotals(<<>>)[f] = Zero
    /\ todaysMeals = <<>> => dailyTotals = None
    /\ todaysMeals # <<>> =>
        /\ dailyTotals # None
        /\ DOMAIN dailyTotals[1] = TotalFields
        /\ \A f \in TotalFields :
            LET t == dailyTotals[1][f]
                m == MaxScale(todaysMeals, f)
            IN  /\ t.d > 0 => t.n % 10 # 0
                /\ t.n * Pow10(m) = SumScaled(todaysMeals, f, Len(todaysMeals), m) * Pow10(t.d)

\* Two different results have been saved: 32 g and 3.5 g of protein total
\* 35.5 g, 720 kcal and no calories total 720.
C7_Witness ==
    /\ Len(todaysMeals) = 2
    /\ todaysMeals[1].protein # todaysMeals[2].protein
    /\ dailyTotals = Some([calories |-> [n |-> 720, d |-> 0],
                           protein  |-> [n |-> 355, d |-> 1],
                           carbs    |-> [n |-> 65, d |-> 0],
                           fat      |-> [n |-> 28, d |-> 0]])

\* C9: no two entries of the meal list have the same id, whatever was saved
\* and whenever, two saves at the same clock reading included.
C9_UniqueIds ==
    \A i, j \in DOMAIN todaysMeals :
        i # j => todaysMeals[i].id # todaysMeals[j].id

IsPrefix(s, t) == Len(s) <= Len(t) /\ \A i \in DOMAIN s : s[i] = t[i]

\* C10: across every step of the page the meal list before is a prefix of the
\* meal list after; a step that changes the list is a saveMealFromAnalysis
\* step, which appends one entry; upload, capture, new-upload reset, barcode
\* search and the camera actions leave the list as it is; and the entries are
\* in the order of their saves.
C10_AppendOnly ==
    /\ [][/\ IsPrefix(todaysMeals, todaysMeals')
          /\ todaysMeals' # todaysMeals =>
                /\ saveMealFromAnalysis
                /\ Len(todaysMeals') = Len(todaysMeals) + 1
          /\ (\/ handleUpload \/ handleUploadSettled \/ handleNewUpload
              \/ handleBarcodeSearch \/ handleBarcodeFound \/ handleBarcodeFailed
              \/ openCamera \/ openCameraGranted \/ openCameraDenied
              \/ capturePhoto \/ capturePhotoBlob \/ capturePhotoSettled
              \/ closeCamera) => UNCHANGED todaysMeals]_vars
    /\ [](\A i, j \in DOMAIN todaysMeals :
            i <= j => todaysMeals[i].timestamp <= todaysMeals[j].timestamp)

\* Two entries were saved and the page was then reset by Upload New Image:
\* both entries are still there.
C10_Witness ==
    /\ Len(todaysMeals) = 2
    /\ result = None
    /\ image = 0
    /\ todaysMeals[1].protein # todaysMeals[2].protein

----------------------------------------------------------------------------
(* Home: C11, under Spec *)

\* C11: saveMealFromAnalysis leaves the meal list as it is without a current
\* result (null or empty); with one, the step appends exactly one entry whose
\* calories, protein, carbs and fat are extractNumericValue of the fields of
\* parseNutritionResult of the current result, and leaves the result and the
\* image as they are.
C11_SaveAppendsOne ==
    /\ [](\A noResult \in {None, Some(<<>>)} :
            MealsAfterSave(noResult, todaysMeals, now) = todaysMeals)
    /\ [][/\ (saveMealFromAnalysis /\ Truthy(result)) => todaysMeals' # todaysMeals
          /\ todaysMeals' # todaysMeals =>
                /\ Truthy(result)
                /\ Len(todaysMeals') = Len(todaysMeals) + 1
                /\ SubSeq(todaysMeals', 1, Len(todaysMeals)) = todaysMeals
                /\ \A f \in TotalFields :
                      todaysMeals'[Len(todaysMeals')][f]
                          = extractNumericValue(parseNutritionResult(result[1])[f])
                /\ result' = result
                /\ image' = image]_vars

\* The second analysis text has been saved: the entry holds 3.5 g of protein
\* and nothing else, and the result and the image are still there.
C11_Witness ==
    /\ Len(todaysMeals) = 1
    /\ todaysMeals[1].protein = [n |-> 35, d |-> 1]
    /\ todaysMeals[1].carbs = Zero
    /\ result = Some(SecondText)
    /\ image # 0

----------------------------------------------------------------------------
(* Home: C12, under SpecOverlap *)

----------------------------------------------------------------------------
(* parseNutritionResult: C13 and C16, under SpecParser *)

\* C13: for a text with more than one tip: line, the tip returned is the
\* remainder of the last tip: line followed only by the continuation lines
\* that come after that line, in the order of the text; the lines collected
\* after an earlier tip: line are not part of it.
C13_LastTipWins ==
    ppc = "done" =>
        LET n == Len(InputOf(text))
            S == LabelledLines("tip", n)
        IN  Cardinality(S) > 1 =>
                \E v \in {SubSeq(nutritionData.tip, 1, m) : m \in 0..Len(nutritionData.tip)} :
                    /\ IsRemainder(TrimmedLine(Last(S)), "tip", v)
                    /\ nutritionData.tip = v \o Continuation(Last(S), n)

\* s has two spaces in a row.
HasDoubleSpace(s) == \E i \in 1..(Len(s) - 1) : s[i] = " " /\ s[i + 1] = " "

\* C16: the tip returned has no white space at its start or at its end, and
\* two spaces in a row only where a line of the text has them, also when the
\* tip: line holds nothing after its label and continuation lines follow.
C16_TipTrimmed ==
    ppc = "done" =>
        LET tip == nutritionData.tip IN
        /\ tip # <<>> => tip[1] \notin WhiteSpace /\ tip[Len(tip)] \notin WhiteSpace
        /\ HasDoubleSpace(tip) =>
                \E i \in DOMAIN InputOf(text) : HasDoubleSpace(TrimmedLine(i))

----------------------------------------------------------------------------
(* Home: C15, under Spec *)

\* The texts a successful analysis call returns.
SuccessTexts == {answer.body : answer \in {a \in AnalysisAnswers : a.ok}}

\* C15: the meal list changes only while the current result is a text that a
\* successful analysis call returned, so every entry comes from such a text;
\* while the result is the error message of a failed upload or capture, a
\* step (saving included) adds nothing to the list.
C15_NoEntryFromFailure ==
    [][todaysMeals' # todaysMeals => (result # None /\ result[1] \in SuccessTexts)]_vars

----------------------------------------------------------------------------
(* POST of /api/analyse: C14, under SpecRoute *)

\* The form data can be read and has no 'file' entry.
NoFileEntry == request.readable /\ request.file = "none"

\* The handler has returned one response, and no error has left it.
OneResponse ==
    /\ rpc # "uncaught"
    /\ rpc # "done" => responses = <<>>
    /\ rpc = "done" =>
        /\ Len(responses) = 1
        /\ responses[1].status \in {200, 400, 500}
        /\ responses[1].status = 200 <=> DOMAIN responses[1].body = {"result"}
        /\ responses[1].status # 200 =>
            /\ DOMAIN responses[1].body = {"error"}
            /\ responses[1].body.error # ""

\* C14 as stated: a POST without a 'file' entry is answered 400 'No file
\* uploaded' and no analysis is attempted; every other failure is answered
\* 500 with an error message; the handler returns exactly one response and no
\* exception leaves it.
C14_RouteAnswers ==
    /\ OneResponse
    /\ rpc = "done" =>
        IF NoFileEntry
        THEN /\ responses[1].status = 400
             /\ responses[1].body = [error |-> MsgNoFile]
             /\ attempts = 0
        ELSE responses[1].status \in {200, 500}

\* The OpenAI handler runs without OPENAI_API_KEY.
KeyMissing == route = "openai" /\ ~apiKey

\* C14, amended: the handler returns exactly one response and no exception
\* leaves it.  The OpenAI handler without its API key answers 500 with the
\* configuration message whatever the request.  Otherwise a form data whose
\* 'file' entry is missing or empty is answered 400 'No file uploaded', and by
\* the OpenAI handler a file that is not an image 400 'Uploaded file must be
\* an image', no analysis being attempted in either case; every other
\* request is answered 200 with a result or, after a failure, 500 with an
\* error message.
C14_RouteAnswersAmended ==
    /\ OneResponse
    /\ rpc # "done" => ENABLED RouteNext
    /\ rpc = "done" =>
        LET answer == responses[1] IN
        IF KeyMissing
        THEN answer.status = 500 /\ answer.body = [error |-> MsgNoKey] /\ attempts = 0
        ELSE IF ~request.readable
        THEN answer.status = 500 /\ attempts = 0
        ELSE IF request.file \in {"none", "empty"}
        THEN answer.status = 400 /\ answer.body = [error |-> MsgNoFile] /\ attempts = 0
        ELSE IF route = "openai" /\ request.file = "document"
        THEN answer.status = 400 /\ answer.body = [error |-> MsgNotImage] /\ attempts = 0
        ELSE /\ answer.status \in {200, 500}
             /\ request.file = "text" => answer.status = 500
             /\ attempts <= 1
             /\ answer.status = 200 => attempts = 1

\* The OpenAI handler, without its API key, has answered a POST that has no
\* 'file' entry with status 500.
C14_Witness ==
    /\ rpc = "done"
    /\ KeyMissing
    /\ NoFileEntry
    /\ responses = <<[status |-> 500, body |-> [error |-> MsgNoKey]]>>

----------------------------------------------------------------------------
(* Home: C17 to C20, under SpecOverlap *)

\* C17: in every state isLoading is true if a request of handleUpload or of
\* capturePhoto to the analysis endpoint is in flight, and false if none is.
C17_LoadingWhileInFlight == isLoading <=> analyses # {}


\* C18: whenever no analysis request is in flight and a result is displayed,
\* an image is previewed and the result answers the request made for that
\* image: not an older request's response put in place of a newer one's, and
\* not a response that arrived after handleNewUpload had reset the page.
C18_ResultOfPreviewedImage ==
    (analyses = {} /\ result # None) => (image # 0 /\ answeredImage = image)


\* C19: in every state, whatever the interleaving of overlapping barcode
\* searches, barcodeData and barcodeError are not both set.
C19_BarcodeExclusive == ~(barcodeData # None /\ barcodeError # "")

\* C20: in every state where the camera interface is closed and no openCamera
\* call awaits getUserMedia, every stream that was acquired has had its tracks
\* stopped, also when openCamera ran again before an earlier call resolved.
C20_StreamsReleased == (~showCamera /\ cameraReqs = 0) => liveStreams = {}

====
